---------------------------- MODULE Spec2Model ----------------------------
(***************************************************************************)
(* The two CRUD resource services of the repository:                       *)
(*   apps/microservice-1/app.py  (user-service,    module list `users`)    *)
(*   apps/microservice-2/app.py  (product-service, module list `products`) *)
(* Each service is one process holding one module-level list.  A behaviour *)
(* of Spec follows ONE of the two processes (the variable `service` says   *)
(* which); the two share no state, so the list of the other one stays at   *)
(* its seed.  Requests are handled one at a time, each handler running to  *)
(* completion (one action per Flask view function).                       *)
(* SpecThreads follows the same process when its server runs the create    *)
(* and delete view functions in concurrent threads, which may be preempted *)
(* between the statements that read the list and those that write it.      *)
(* SpecGateway follows apps/flask-app/app.py, the gateway that GETs the    *)
(* two services and renders their lists.                                   *)
(*                                                                         *)
(* JSON values are tagged records, so that Python's dynamic typing (a      *)
(* string where a number is expected) is part of the model:                *)
(*   S(s) a str, I(n) an int, F(h) a float carried in hundredths           *)
(*   (1299.99 is F(129999)).                                               *)
(***************************************************************************)
EXTENDS Integers, Sequences, FiniteSets, TLC

VARIABLES
    service,     \* "user-service" or "product-service": the process followed
    users,       \* microservice-1/app.py: the module-level list `users`
    products,    \* microservice-2/app.py: the module-level list `products`
    request,     \* the request handled last (history)
    response,    \* the response it was given (history)
    before,      \* the list of the service just before that request (history)
    freed,       \* the ids of the records that were deleted while carrying
                 \* the highest id, since the last successful create, in
                 \* the order of the deletes (history)
    freedBefore, \* the value of `freed` just before the last request (history)
    thread,      \* SpecThreads: the request each server thread handles, the
                 \* line of the view function it has reached and its locals
    hist,        \* SpecThreads: how often the list was changed and rebound,
                 \* and the thread that rebound it last (history)
    gateway      \* SpecGateway: the request flask-app/app.py handled last,
                 \* what the two backends answered and the response (history)

vars == <<service, users, products, request, response, before, freed, freedBefore,
          thread, hist, gateway>>

---------------------------------------------------------------------------
(* JSON / Python values *)

S(s) == [t |-> "str", s |-> s, n |-> 0]
I(n) == [t |-> "int", s |-> "", n |-> n]
F(h) == [t |-> "float", s |-> "", n |-> h]

\* Highest id a create may hand out in the model (the code has no limit).
MaxId == 5

\* Number of requests a multi-threaded server handles at the same time.
NThreads == 2

\* The strings of the model that Python's float() accepts, with their value
\* in hundredths; float() of any other string raises ValueError.
NumericStrings == [x \in {"19.99", "20"} |-> IF x = "19.99" THEN 1999 ELSE 2000]

\* float(value): microservice-2/app.py lines 91 and 116.
float(v) ==
    CASE v.t = "float" -> [ok |-> TRUE, val |-> v, exc |-> ""]
      [] v.t = "int"   -> [ok |-> TRUE, val |-> F(100 * v.n), exc |-> ""]
      [] v.t = "str"   ->
            IF v.s \in DOMAIN NumericStrings
            THEN [ok |-> TRUE, val |-> F(NumericStrings[v.s]), exc |-> ""]
            ELSE [ok |-> FALSE, val |-> v, exc |-> "ValueError"]
      [] OTHER         -> [ok |-> FALSE, val |-> v, exc |-> "TypeError"]

\* str.lower() on the strings of the model; on a value that is not a str the
\* attribute lookup raises AttributeError (microservice-2/app.py line 138).
LowerTable ==
    [x \in {"Electronics", "ELECTRONICS", "electronics",
            "Accessories", "accessories", "Toys", "toys"} |->
        CASE x \in {"Electronics", "ELECTRONICS", "electronics"} -> "electronics"
          [] x \in {"Accessories", "accessories"} -> "accessories"
          [] OTHER -> "toys"]

lower(v) ==
    IF v.t = "str"
    THEN [ok |-> TRUE, val |-> IF v.s \in DOMAIN LowerTable THEN LowerTable[v.s] ELSE v.s,
          exc |-> ""]
    ELSE [ok |-> FALSE, val |-> "", exc |-> "AttributeError"]

\* price * stock (microservice-2/app.py line 159): price is a float; an int
\* or float stock multiplies, a str stock raises TypeError.
Mul(price, stock) ==
    CASE stock.t = "int"   -> [ok |-> TRUE, val |-> price.n * stock.n, exc |-> ""]
      [] stock.t = "float" -> [ok |-> TRUE, val |-> (price.n * stock.n) \div 100, exc |-> ""]
      [] OTHER             -> [ok |-> FALSE, val |-> 0, exc |-> "TypeError"]

---------------------------------------------------------------------------
(* Request bodies: request.get_json() is None or a dict.  A dict is the    *)
(* ordered sequence of its items (Python dicts keep insertion order).      *)

None == [present |-> FALSE, items |-> <<>>]
Dict(items) == [present |-> TRUE, items |-> items]
KV(k, v) == [k |-> k, v |-> v]

\* `not data`
Falsy(data) == ~data.present \/ data.items = <<>>

\* `k in data`
HasKey(data, k) == \E i \in 1..Len(data.items) : data.items[i].k = k

\* `data[k]`
Get(data, k) == data.items[CHOOSE i \in 1..Len(data.items) : data.items[i].k = k].v

\* `data.get(k, default)`
GetOr(data, k, default) == IF HasKey(data, k) THEN Get(data, k) ELSE default

---------------------------------------------------------------------------
(* Seed data *)

User(id, name, email, role, created_at) ==
    [id |-> I(id), name |-> S(name), email |-> S(email), role |-> S(role),
     created_at |-> S(created_at)]

SeedUsers ==
    << User(1, "John Doe", "john.doe@example.com", "admin", "2024-01-15T10:30:00Z"),
       User(2, "Jane Smith", "jane.smith@example.com", "user", "2024-01-16T14:20:00Z"),
       User(3, "Bob Johnson", "bob.johnson@example.com", "user", "2024-01-17T09:15:00Z"),
       User(4, "Alice Brown", "alice.brown@example.com", "moderator", "2024-01-18T16:45:00Z") >>

Product(id, name, description, price, category, stock, created_at) ==
    [id |-> I(id), name |-> S(name), description |-> S(description), price |-> F(price),
     category |-> S(category), stock |-> I(stock), created_at |-> S(created_at)]

SeedProducts ==
    << Product(1, "Laptop Pro", "High-performance laptop for professionals",
               129999, "Electronics", 50, "2024-01-15T10:30:00Z"),
       Product(2, "Wireless Mouse", "Ergonomic wireless mouse with precision tracking",
               2999, "Accessories", 200, "2024-01-16T14:20:00Z"),
       Product(3, "Mechanical Keyboard", "RGB mechanical keyboard with tactile switches",
               14999, "Accessories", 75, "2024-01-17T09:15:00Z"),
       Product(4, "Monitor 4K", "27-inch 4K monitor with HDR support",
               39999, "Electronics", 30, "2024-01-18T16:45:00Z"),
       Product(5, "Webcam HD", "1080p HD webcam with built-in microphone",
               7999, "Accessories", 100, "2024-01-19T11:30:00Z") >>

---------------------------------------------------------------------------
(* Responses.  jsonify(x) answers 200 unless a status is returned with it; *)
(* an exception that leaves a view function is answered by Flask with 500. *)

Resp(status, kind, text, items, nums) ==
    [status |-> status, kind |-> kind, text |-> text, items |-> items, nums |-> nums]

JsonRecord(status, rec) == Resp(status, "record", "", <<rec>>, <<>>)
JsonList(recs)          == Resp(200, "list", "", recs, <<>>)
JsonError(status, msg)  == Resp(status, "error", msg, <<>>, <<>>)
JsonMessage(msg)        == Resp(200, "message", msg, <<>>, <<>>)
Fault(exc)              == Resp(500, "fault", exc, <<>>, <<>>)

Result(store, resp) == [store |-> store, resp |-> resp]

---------------------------------------------------------------------------
(* Helpers shared by the view functions *)

\* next((u for u in store if u['id'] == id), None): the position of the
\* first record with that id, 0 for None.
Find(store, id) ==
    IF \E i \in 1..Len(store) : store[i].id = I(id)
    THEN CHOOSE i \in 1..Len(store) :
            /\ store[i].id = I(id)
            /\ \A j \in 1..(i - 1) : store[j].id # I(id)
    ELSE 0

\* Mutant of MaxIdOf: the next id taken from the number of records,
\* len(store), instead of the highest id.
MaxIdOfCount(store) ==
    IF store = <<>>
    THEN [ok |-> FALSE, val |-> 0, exc |-> "ValueError"]
    ELSE [ok |-> TRUE, val |-> Len(store), exc |-> ""]

\* max([u['id'] for u in store]); max() of an empty list raises ValueError.
MaxIdOf(store) ==
    IF store = <<>>
    THEN [ok |-> FALSE, val |-> 0, exc |-> "ValueError"]
    ELSE [ok |-> TRUE,
          val |-> CHOOSE m \in {store[i].id.n : i \in 1..Len(store)} :
                     \A i \in 1..Len(store) : store[i].id.n <= m,
          exc |-> ""]

\* Mutant of Without: the filter inverted, [u for u in store if u['id'] == id].
WithoutInverted(store, id) == SelectSeq(store, LAMBDA r : r.id = I(id))

\* [u for u in store if u['id'] != id]
RECURSIVE Without(_, _)
Without(store, id) ==
    IF store = <<>> THEN <<>>
    ELSE IF Head(store).id # I(id)
         THEN <<Head(store)>> \o Without(Tail(store), id)
         ELSE Without(Tail(store), id)

\* Mutant of UserUpdatable: created_at let into the allow-list.
UserUpdatableWide == {"name", "email", "role", "created_at"}

\* The allow-lists of the two update loops.
UserUpdatable    == {"name", "email", "role"}
ProductUpdatable == {"name", "description", "price", "category", "stock"}

\* for key, value in data.items(): if key in allowed: rec[key] = value
\* (price goes through float() in the product service).  The record is
\* changed in place, item by item: when float() raises, the items already
\* applied stay applied.  Gives the record and the exception ("" for none).
RECURSIVE UpdateLoop(_, _, _, _)
UpdateLoop(rec, items, allowed, floatKeys) ==
    IF items = <<>> THEN [rec |-> rec, exc |-> ""]
    ELSE LET key   == Head(items).k
             value == Head(items).v
         IN  IF key \notin allowed
             THEN UpdateLoop(rec, Tail(items), allowed, floatKeys)
             ELSE IF key \in floatKeys
                  THEN LET f == float(value)
                       IN  IF f.ok
                           THEN UpdateLoop([rec EXCEPT ![key] = f.val], Tail(items),
                                           allowed, floatKeys)
                           ELSE [rec |-> rec, exc |-> f.exc]
                  ELSE UpdateLoop([rec EXCEPT ![key] = value], Tail(items),
                                  allowed, floatKeys)

---------------------------------------------------------------------------
(* microservice-1/app.py: the view functions as functions of the list and  *)
(* the request, giving the list afterwards and the response.               *)

get_users(store) == Result(store, JsonList(store))

get_user(store, user_id) ==
    LET i == Find(store, user_id)
    IN  IF i # 0 THEN Result(store, JsonRecord(200, store[i]))
        ELSE Result(store, JsonError(404, "User not found"))

\* Mutant of create_user: only `if not data` is checked, and the fields are
\* read with data.get(k), which gives None for a missing key.
create_user_unchecked(store, data, now) ==
    IF Falsy(data)
    THEN Result(store, JsonError(400, "Missing required fields"))
    ELSE LET m == MaxIdOf(store)
             null == [t |-> "null", s |-> "", n |-> 0]
         IN  IF ~m.ok THEN Result(store, Fault(m.exc))
             ELSE LET new_user == [id |-> I(m.val + 1),
                                   name |-> GetOr(data, "name", null),
                                   email |-> GetOr(data, "email", null),
                                   role |-> GetOr(data, "role", null),
                                   created_at |-> S(now \o "Z")]
                  IN  Result(Append(store, new_user), JsonRecord(201, new_user))

\* Mutant of create_user: the id taken as len(users) + 1.
create_user_by_count(store, data, now) ==
    IF Falsy(data) \/ ~(\A k \in {"name", "email", "role"} : HasKey(data, k))
    THEN Result(store, JsonError(400, "Missing required fields"))
    ELSE LET new_user == [id |-> I(Len(store) + 1),
                          name |-> Get(data, "name"),
                          email |-> Get(data, "email"),
                          role |-> Get(data, "role"),
                          created_at |-> S(now \o "Z")]
         IN  Result(Append(store, new_user), JsonRecord(201, new_user))

create_user(store, data, now) ==
    IF Falsy(data) \/ ~(\A k \in {"name", "email", "role"} : HasKey(data, k))
    THEN Result(store, JsonError(400, "Missing required fields"))
    ELSE LET m == MaxIdOf(store)
         IN  IF ~m.ok THEN Result(store, Fault(m.exc))
             ELSE LET new_user == [id |-> I(m.val + 1),
                                   name |-> Get(data, "name"),
                                   email |-> Get(data, "email"),
                                   role |-> Get(data, "role"),
                                   created_at |-> S(now \o "Z")]
                  IN  Result(Append(store, new_user), JsonRecord(201, new_user))

\* Mutant of update_user: the body is checked before the id.
update_user_body_first(store, user_id, data) ==
    LET i == Find(store, user_id)
    IN  IF Falsy(data) THEN Result(store, JsonError(400, "No data provided"))
        ELSE IF i = 0 THEN Result(store, JsonError(404, "User not found"))
        ELSE LET u == UpdateLoop(store[i], data.items, UserUpdatable, {})
             IN  Result([store EXCEPT ![i] = u.rec], JsonRecord(200, u.rec))

update_user(store, user_id, data) ==
    LET i == Find(store, user_id)
    IN  IF i = 0 THEN Result(store, JsonError(404, "User not found"))
        ELSE IF Falsy(data) THEN Result(store, JsonError(400, "No data provided"))
        ELSE LET u == UpdateLoop(store[i], data.items, UserUpdatable, {})
             IN  Result([store EXCEPT ![i] = u.rec], JsonRecord(200, u.rec))

delete_user(store, user_id) ==
    IF Find(store, user_id) = 0
    THEN Result(store, JsonError(404, "User not found"))
    ELSE Result(Without(store, user_id), JsonMessage("User deleted successfully"))

user_health(now) ==
    Resp(200, "health", "healthy", <<>>, <<S("user-service"), S(now), S("1.0.0")>>)

user_metrics(store) ==
    Resp(200, "metrics", "", <<>>, <<I(Len(store) * 10), I(Len(store)), I(3600)>>)

---------------------------------------------------------------------------
(* microservice-2/app.py *)

get_products(store) == Result(store, JsonList(store))

get_product(store, product_id) ==
    LET i == Find(store, product_id)
    IN  IF i # 0 THEN Result(store, JsonRecord(200, store[i]))
        ELSE Result(store, JsonError(404, "Product not found"))

\* Mutant of create_product: the record put first, products.insert(0, ...).
create_product_prepending(store, data, now) ==
    IF Falsy(data)
       \/ ~(\A k \in {"name", "description", "price", "category"} : HasKey(data, k))
    THEN Result(store, JsonError(400, "Missing required fields"))
    ELSE LET m == MaxIdOf(store)
             f == float(Get(data, "price"))
         IN  IF ~m.ok THEN Result(store, Fault(m.exc))
             ELSE IF ~f.ok THEN Result(store, Fault(f.exc))
             ELSE LET new_product == [id |-> I(m.val + 1),
                                      name |-> Get(data, "name"),
                                      description |-> Get(data, "description"),
                                      price |-> f.val,
                                      category |-> Get(data, "category"),
                                      stock |-> GetOr(data, "stock", I(0)),
                                      created_at |-> S(now \o "Z")]
                  IN  Result(<<new_product>> \o store, JsonRecord(201, new_product))

create_product(store, data, now) ==
    IF Falsy(data)
       \/ ~(\A k \in {"name", "description", "price", "category"} : HasKey(data, k))
    THEN Result(store, JsonError(400, "Missing required fields"))
    ELSE LET m == MaxIdOf(store)
             f == float(Get(data, "price"))
         IN  IF ~m.ok THEN Result(store, Fault(m.exc))
             ELSE IF ~f.ok THEN Result(store, Fault(f.exc))
             ELSE LET new_product == [id |-> I(m.val + 1),
                                      name |-> Get(data, "name"),
                                      description |-> Get(data, "description"),
                                      price |-> f.val,
                                      category |-> Get(data, "category"),
                                      stock |-> GetOr(data, "stock", I(0)),
                                      created_at |-> S(now \o "Z")]
                  IN  Result(Append(store, new_product), JsonRecord(201, new_product))

\* Mutant of update_product: the price is added to the current price
\* (product[key] += float(value)).
update_product_adding(store, product_id, data) ==
    LET i == Find(store, product_id)
    IN  IF i = 0 THEN Result(store, JsonError(404, "Product not found"))
        ELSE IF Falsy(data) THEN Result(store, JsonError(400, "No data provided"))
        ELSE LET u == UpdateLoop(store[i], data.items, ProductUpdatable, {"price"})
                 r == IF u.rec.price = store[i].price THEN u.rec
                      ELSE [u.rec EXCEPT !.price = F(store[i].price.n + u.rec.price.n)]
             IN  Result([store EXCEPT ![i] = r],
                        IF u.exc = "" THEN JsonRecord(200, r) ELSE Fault(u.exc))

update_product(store, product_id, data) ==
    LET i == Find(store, product_id)
    IN  IF i = 0 THEN Result(store, JsonError(404, "Product not found"))
        ELSE IF Falsy(data) THEN Result(store, JsonError(400, "No data provided"))
        ELSE LET u == UpdateLoop(store[i], data.items, ProductUpdatable, {"price"})
             IN  Result([store EXCEPT ![i] = u.rec],
                        IF u.exc = "" THEN JsonRecord(200, u.rec) ELSE Fault(u.exc))

delete_product(store, product_id) ==
    IF Find(store, product_id) = 0
    THEN Result(store, JsonError(404, "Product not found"))
    ELSE Result(Without(store, product_id), JsonMessage("Product deleted successfully"))

\* [p for p in store if p['category'].lower() == category.lower()]: the
\* records that match, in list order, or the exception of the first record
\* whose category has no lower().
RECURSIVE CategoryFilter(_, _)
CategoryFilter(store, category) ==
    IF store = <<>> THEN [ok |-> TRUE, val |-> <<>>, exc |-> ""]
    ELSE LET l == lower(Head(store).category)
         IN  IF ~l.ok THEN [ok |-> FALSE, val |-> <<>>, exc |-> l.exc]
             ELSE LET rest == CategoryFilter(Tail(store), category)
                  IN  IF ~rest.ok THEN rest
                      ELSE IF l.val = lower(S(category)).val
                           THEN [rest EXCEPT !.val = <<Head(store)>> \o rest.val]
                           ELSE rest

\* Mutant of get_products_by_category: the module list is rebound to the
\* filtered list (global products; products = [...]).
get_products_by_category_rebinding(store, category) ==
    LET c == CategoryFilter(store, category)
    IN  IF c.ok THEN Result(c.val, JsonList(c.val)) ELSE Result(store, Fault(c.exc))

get_products_by_category(store, category) ==
    LET c == CategoryFilter(store, category)
    IN  IF c.ok THEN Result(store, JsonList(c.val)) ELSE Result(store, Fault(c.exc))

product_health(now) ==
    Resp(200, "health", "healthy", <<>>, <<S("product-service"), S(now), S("1.0.0")>>)

\* sum(p['price'] * p['stock'] for p in store), in hundredths.
RECURSIVE TotalValue(_)
TotalValue(store) ==
    IF store = <<>> THEN [ok |-> TRUE, val |-> 0, exc |-> ""]
    ELSE LET x == Mul(Head(store).price, Head(store).stock)
         IN  IF ~x.ok THEN x
             ELSE LET rest == TotalValue(Tail(store))
                  IN  IF ~rest.ok THEN rest ELSE [rest EXCEPT !.val = x.val + rest.val]

product_metrics(store) ==
    LET total == TotalValue(store)
    IN  IF total.ok
        THEN Resp(200, "metrics", "", <<>>,
                  <<I(Len(store) * 15), I(Len(store)), I(3600), F(total.val)>>)
        ELSE Fault(total.exc)

---------------------------------------------------------------------------
(* The requests of the model *)

\* Readings of datetime.utcnow().isoformat().
UtcNow == {"2026-11-05T08:37:00.000001"}

\* The id of a path /api/<resource>/<int:id>.
Ids == 1..MaxId

\* The ids PUT requests are sent to.  User service: a seed record, and the
\* first id a create hands out.  Product service: a seed record, and an id
\* that no record ever carries.
UserPutIds    == {2, 5}
ProductPutIds == {2, 9}

\* Bodies sent to the user service.
UserFull    == Dict(<<KV("name", S("X")), KV("email", S("x@x.com")), KV("role", S("user"))>>)
UserNoRole  == Dict(<<KV("name", S("X")), KV("email", S("x@x.com"))>>)
UserPartial == Dict(<<KV("name", S("Neo")), KV("id", I(99)),
                      KV("created_at", S("1999-01-01T00:00:00Z"))>>)
UserPostBodies == {None, Dict(<<>>), UserFull, UserNoRole}
UserPutBodies  == {None, Dict(<<>>), UserPartial, UserNoRole}

\* Bodies sent to the product service.
ProductFull     == Dict(<<KV("name", S("Hub")), KV("description", S("USB hub")),
                          KV("price", S("19.99")), KV("category", S("electronics"))>>)
ProductNoPrice  == Dict(<<KV("name", S("Hub")), KV("description", S("USB hub")),
                          KV("category", S("electronics"))>>)
ProductBadPrice == Dict(<<KV("name", S("Hub")), KV("description", S("USB hub")),
                          KV("category", S("electronics")), KV("price", S("abc")),
                          KV("stock", I(7))>>)
ProductPrice    == Dict(<<KV("price", I(20)), KV("id", I(99))>>)
ProductPartial  == Dict(<<KV("stock", S("many")), KV("price", S("abc")),
                          KV("name", S("Hub"))>>)
ProductCategory == Dict(<<KV("category", I(5))>>)
ProductPostBodies == {None, Dict(<<>>), ProductFull, ProductNoPrice, ProductBadPrice}
ProductPutBodies  == {None, Dict(<<>>), ProductPrice, ProductPartial, ProductCategory}

\* The <category> of a path /api/products/category/<category>.
Categories == {"electronics", "Electronics", "ELECTRONICS", "Toys"}

Req(op, id, data, category, now) ==
    [op |-> op, id |-> id, data |-> data, category |-> category, now |-> now]

---------------------------------------------------------------------------
(* flask-app/app.py: the gateway *)

\* What requests.get(...) gives: a response (its status_code, whether its
\* body parses as JSON, and the parsed body) or a raised exception.
Answer(status, json, body) ==
    [kind |-> "response", status |-> status, json |-> json, body |-> body, exc |-> ""]

Raise(exc) ==
    [kind |-> "raise", status |-> 0, json |-> FALSE, body |-> <<>>, exc |-> exc]

NoCall == [kind |-> "none", status |-> 0, json |-> FALSE, body |-> <<>>, exc |-> ""]

\* render_template(template, users=..., products=..., error=...): the page
\* and its context, answered with status 200.
Page(template, us, ps, error) ==
    [status |-> 200, template |-> template, users |-> us, products |-> ps,
     error |-> error, services |-> <<>>, body |-> <<>>]

\* An exception that leaves the view function: Flask answers 500.
InternalServerError(exc) ==
    [status |-> 500, template |-> "", users |-> <<>>, products |-> <<>>,
     error |-> exc, services |-> <<>>, body |-> <<>>]

NoPage ==
    [status |-> 0, template |-> "", users |-> <<>>, products |-> <<>>,
     error |-> "", services |-> <<>>, body |-> <<>>]

\* response.json(): the parsed body, or JSONDecodeError.
Json(r) ==
    IF r.json THEN [ok |-> TRUE, val |-> r.body, exc |-> ""]
    ELSE [ok |-> FALSE, val |-> <<>>, exc |-> "JSONDecodeError"]

\* r.json() if r.status_code == 200 else []
JsonIf200(r) ==
    IF r.status = 200 THEN Json(r) ELSE [ok |-> TRUE, val |-> <<>>, exc |-> ""]

\* Mutant of index: the two calls outside any try block.
index_unguarded(u, p) ==
    IF u.kind = "raise" THEN InternalServerError(u.exc)
    ELSE IF ~JsonIf200(u).ok THEN InternalServerError(JsonIf200(u).exc)
    ELSE IF p.kind = "raise" THEN InternalServerError(p.exc)
    ELSE IF ~JsonIf200(p).ok THEN InternalServerError(JsonIf200(p).exc)
    ELSE Page("index.html", JsonIf200(u).val, JsonIf200(p).val, "")

\* index: u and p are what the user service and the product service give to
\* a GET at this moment.  One try block holds both calls: an exception of
\* either one (the product call is not made when the user call raised)
\* renders the page with both lists empty.
index(u, p) ==
    IF u.kind = "raise" THEN Page("index.html", <<>>, <<>>, u.exc)
    ELSE IF ~JsonIf200(u).ok THEN Page("index.html", <<>>, <<>>, JsonIf200(u).exc)
    ELSE IF p.kind = "raise" THEN Page("index.html", <<>>, <<>>, p.exc)
    ELSE IF ~JsonIf200(p).ok THEN Page("index.html", <<>>, <<>>, JsonIf200(p).exc)
    ELSE Page("index.html", JsonIf200(u).val, JsonIf200(p).val, "")

\* users (the view function of /users).
gateway_users(u) ==
    IF u.kind = "raise" THEN Page("users.html", <<>>, <<>>, u.exc)
    ELSE IF u.status = 200
         THEN IF Json(u).ok THEN Page("users.html", Json(u).val, <<>>, "")
              ELSE Page("users.html", <<>>, <<>>, Json(u).exc)
         ELSE Page("users.html", <<>>, <<>>, "Failed to fetch users")

\* products (the view function of /products).
gateway_products(p) ==
    IF p.kind = "raise" THEN Page("products.html", <<>>, <<>>, p.exc)
    ELSE IF p.status = 200
         THEN IF Json(p).ok THEN Page("products.html", <<>>, Json(p).val, "")
              ELSE Page("products.html", <<>>, <<>>, Json(p).exc)
         ELSE Page("products.html", <<>>, <<>>, "Failed to fetch products")

\* 'healthy' if r.status_code == 200 else 'unhealthy'; except: 'unhealthy'
Healthy(r) ==
    IF r.kind = "response" /\ r.status = 200 THEN "healthy" ELSE "unhealthy"

\* health (the view function of /api/health).
gateway_health(u, p, now) ==
    [status |-> 200, template |-> "", users |-> <<>>, products |-> <<>>, error |-> "",
     services |-> <<Healthy(u), Healthy(p)>>,
     body |-> <<S("healthy"), S(now), S("1.0.0")>>]

\* metrics (the view function of /api/metrics).
gateway_metrics ==
    [status |-> 200, template |-> "", users |-> <<>>, products |-> <<>>, error |-> "",
     services |-> <<>>, body |-> <<I(1), I(3600), I(2)>>]

\* A request of the gateway as it is recorded: the route, what the two
\* backends gave (NoCall for a backend the route does not ask) and the response.
Served(route, u, p, resp) ==
    [route |-> route, user |-> u, product |-> p, resp |-> resp]

\* What a backend can give to the gateway's GET of its list: 200 with a
\* list, 200 with a body that is not JSON, an error status, no answer within
\* the timeout, or no connection.
Failures ==
    {Answer(404, TRUE, <<>>), Answer(500, FALSE, <<>>), Answer(503, FALSE, <<>>),
     Raise("Timeout"), Raise("ConnectionError")}

UserAnswers ==
    {Answer(200, TRUE, <<>>), Answer(200, TRUE, <<SeedUsers[1]>>),
     Answer(200, TRUE, SeedUsers), Answer(200, FALSE, <<>>)} \cup Failures

ProductAnswers ==
    {Answer(200, TRUE, <<>>), Answer(200, TRUE, <<SeedProducts[1]>>),
     Answer(200, TRUE, SeedProducts), Answer(200, FALSE, <<>>)} \cup Failures

\* What a backend can give to the GET of its /api/health.
HealthAnswers == {Answer(200, TRUE, <<>>)} \cup Failures

---------------------------------------------------------------------------
(* The state machine *)

Store == IF service = "user-service" THEN users ELSE products

NotFound ==
    IF service = "user-service" THEN JsonError(404, "User not found")
    ELSE JsonError(404, "Product not found")

Deleted ==
    IF service = "user-service" THEN JsonMessage("User deleted successfully")
    ELSE JsonMessage("Product deleted successfully")

\* The threads of a multi-threaded server, and a thread with no request.
Threads == 1..NThreads

IdleThread ==
    [pc |-> "idle", op |-> "none", id |-> 0, new |-> <<>>, copy |-> <<>>,
     resp |-> Resp(0, "none", "", <<>>, <<>>), seen |-> 0, rebinds |-> 0, stale |-> {}]

Init ==
    /\ service \in {"user-service", "product-service"}
    /\ users = SeedUsers
    /\ products = SeedProducts
    /\ request = Req("none", 0, None, "", "")
    /\ response = Resp(0, "none", "", <<>>, <<>>)
    /\ before = Store
    /\ freed = <<>>
    /\ freedBefore = <<>>
    /\ thread = [t \in Threads |-> IdleThread]
    /\ hist = [version |-> 0, rebinds |-> 0, rebinder |-> 0]
    /\ gateway = Served("none", NoCall, NoCall, NoPage)

\* The history kept with every request: the request, its response, the list
\* before it, and the ids freed by deletes of the highest-id record that no
\* successful create has followed yet.
Record(req, resp, store, after) ==
    /\ request' = req
    /\ response' = resp
    /\ before' = store
    /\ UNCHANGED <<thread, hist, gateway>>
    /\ freedBefore' = freed
    /\ freed' = IF resp.status = 201 THEN <<>>
                ELSE IF /\ req.op \in {"delete_user", "delete_product"}
                        /\ resp.status = 200
                        /\ \A i \in 1..Len(after) : after[i].id.n < req.id
                     THEN Append(freed, req.id)
                     ELSE freed

\* A request to the user service whose view function gives result r.
UserRequest(req, r) ==
    /\ service = "user-service"
    /\ \A i \in 1..Len(r.store) : r.store[i].id.n <= MaxId
    /\ users' = r.store
    /\ UNCHANGED <<service, products>>
    /\ Record(req, r.resp, users, r.store)

\* A request to the product service whose view function gives result r.
ProductRequest(req, r) ==
    /\ service = "product-service"
    /\ \A i \in 1..Len(r.store) : r.store[i].id.n <= MaxId
    /\ products' = r.store
    /\ UNCHANGED <<service, users>>
    /\ Record(req, r.resp, products, r.store)

GetUsers == UserRequest(Req("get_users", 0, None, "", ""), get_users(users))

GetUser == \E id \in Ids : UserRequest(Req("get_user", id, None, "", ""), get_user(users, id))

CreateUser ==
    \E data \in UserPostBodies, now \in UtcNow :
        UserRequest(Req("create_user", 0, data, "", now), create_user(users, data, now))

UpdateUser ==
    \E id \in UserPutIds, data \in UserPutBodies :
        UserRequest(Req("update_user", id, data, "", ""), update_user(users, id, data))

DeleteUser ==
    \E id \in Ids : UserRequest(Req("delete_user", id, None, "", ""), delete_user(users, id))

UserHealth ==
    \E now \in UtcNow :
        UserRequest(Req("health", 0, None, "", now), Result(users, user_health(now)))

UserMetrics == UserRequest(Req("metrics", 0, None, "", ""), Result(users, user_metrics(users)))

GetProducts == ProductRequest(Req("get_products", 0, None, "", ""), get_products(products))

GetProduct ==
    \E id \in Ids :
        ProductRequest(Req("get_product", id, None, "", ""), get_product(products, id))

CreateProduct ==
    \E data \in ProductPostBodies, now \in UtcNow :
        ProductRequest(Req("create_product", 0, data, "", now),
                       create_product(products, data, now))

UpdateProduct ==
    \E id \in ProductPutIds, data \in ProductPutBodies :
        ProductRequest(Req("update_product", id, data, "", ""),
                       update_product(products, id, data))

DeleteProduct ==
    \E id \in Ids :
        ProductRequest(Req("delete_product", id, None, "", ""), delete_product(products, id))

GetProductsByCategory ==
    \E category \in Categories :
        ProductRequest(Req("get_products_by_category", 0, None, category, ""),
                       get_products_by_category(products, category))

ProductHealth ==
    \E now \in UtcNow :
        ProductRequest(Req("health", 0, None, "", now), Result(products, product_health(now)))

ProductMetrics ==
    ProductRequest(Req("metrics", 0, None, "", ""), Result(products, product_metrics(products)))

Next ==
    \/ GetUsers \/ GetUser \/ CreateUser \/ UpdateUser \/ DeleteUser
    \/ UserHealth \/ UserMetrics
    \/ GetProducts \/ GetProduct \/ CreateProduct \/ UpdateProduct \/ DeleteProduct
    \/ GetProductsByCategory \/ ProductHealth \/ ProductMetrics

Spec == Init /\ [][Next]_vars

---------------------------------------------------------------------------
(* The same view functions under a multi-threaded server (app.run with     *)
(* threads, one thread per request, no lock).  A thread can be preempted   *)
(* between the statements that read the list and those that write it:      *)
(*   create: lines 65-76 (validate, build the record with max + 1),        *)
(*           then line 78 (append to the list the name is bound to);       *)
(*   delete: lines 105-107 (lookup), line 109 right-hand side (build the   *)
(*           filtered copy), line 109 assignment (rebind the name).        *)
(* Each thread handles one request.                                        *)

\* The clock reading of each thread's request (distinct instants).
ThreadNow ==
    <<"2026-11-05T08:37:00.000001", "2026-11-05T08:37:00.000002",
      "2026-11-05T08:37:00.000003", "2026-11-05T08:37:00.000004">>

\* Bodies of the concurrent creates.
ThreadPostBodies ==
    IF service = "user-service" THEN {UserFull, UserNoRole}
    ELSE {ProductFull, ProductNoPrice}

\* The list changes of the multi-threaded server are written to the list of
\* the service followed.
SetStore(new) ==
    /\ IF service = "user-service"
       THEN users' = new /\ UNCHANGED products
       ELSE products' = new /\ UNCHANGED users
    /\ UNCHANGED <<service, request, response, before, freed, freedBefore, gateway>>

KeepStore ==
    UNCHANGED <<service, users, products, request, response, before, freed, freedBefore,
                gateway>>

\* create_user / create_product up to the append: the 400 and the faults end
\* the request; otherwise the thread holds new_user / new_product.
CreateBegin(t) ==
    /\ thread[t].pc = "idle"
    /\ \E data \in ThreadPostBodies :
          LET r == IF service = "user-service"
                   THEN create_user(Store, data, ThreadNow[t])
                   ELSE create_product(Store, data, ThreadNow[t])
          IN  thread' = [thread EXCEPT ![t] =
                  IF r.resp.status = 201
                  THEN [@ EXCEPT !.pc = "append", !.op = "create",
                                 !.new = r.resp.items, !.seen = hist.version]
                  ELSE [@ EXCEPT !.pc = "done", !.op = "create", !.resp = r.resp]]
    /\ UNCHANGED hist
    /\ KeepStore

\* Mutant of CreateAppend: the id is taken again from the list the record
\* is appended to (id computation and append made one step).
CreateAppendRecomputing(t) ==
    /\ thread[t].pc = "append"
    /\ LET rec == [thread[t].new[1] EXCEPT !.id = I(MaxIdOf(Store).val + 1)]
       IN  /\ SetStore(Append(Store, rec))
           /\ thread' = [thread EXCEPT ![t] =
                  [@ EXCEPT !.pc = "done", !.new = <<rec>>, !.resp = JsonRecord(201, rec),
                            !.rebinds = hist.rebinds,
                            !.stale = {d \in Threads : thread[d].pc = "rebind"}]]
    /\ hist' = [hist EXCEPT !.version = @ + 1]

\* users.append(new_user); return jsonify(new_user), 201
CreateAppend(t) ==
    /\ thread[t].pc = "append"
    /\ SetStore(Append(Store, thread[t].new[1]))
    /\ thread' = [thread EXCEPT ![t] =
            [@ EXCEPT !.pc = "done", !.resp = JsonRecord(201, thread[t].new[1]),
                      !.rebinds = hist.rebinds,
                      !.stale = {d \in Threads : thread[d].pc = "rebind"}]]
    /\ hist' = [hist EXCEPT !.version = @ + 1]

\* delete_user / delete_product: the lookup and its 404.
DeleteBegin(t) ==
    /\ thread[t].pc = "idle"
    /\ \E id \in Ids :
          thread' = [thread EXCEPT ![t] =
              IF Find(Store, id) = 0
              THEN [@ EXCEPT !.pc = "done", !.op = "delete", !.id = id, !.resp = NotFound]
              ELSE [@ EXCEPT !.pc = "filter", !.op = "delete", !.id = id]]
    /\ UNCHANGED hist
    /\ KeepStore

\* [u for u in users if u['id'] != user_id]: the copy, not yet bound.
DeleteFilter(t) ==
    /\ thread[t].pc = "filter"
    /\ thread' = [thread EXCEPT ![t] =
            [@ EXCEPT !.pc = "rebind", !.copy = Without(Store, thread[t].id)]]
    /\ UNCHANGED hist
    /\ KeepStore

\* Mutant of DeleteRebind: the list is filtered again when the name is
\* rebound (filter and rebind made one step).
DeleteRebindFiltering(t) ==
    /\ thread[t].pc = "rebind"
    /\ SetStore(Without(Store, thread[t].id))
    /\ thread' = [thread EXCEPT ![t] = [@ EXCEPT !.pc = "done", !.resp = Deleted]]
    /\ hist' = [version |-> hist.version + 1, rebinds |-> hist.rebinds + 1, rebinder |-> t]

\* users = <the copy>; return jsonify({"message": ...})
DeleteRebind(t) ==
    /\ thread[t].pc = "rebind"
    /\ SetStore(thread[t].copy)
    /\ thread' = [thread EXCEPT ![t] = [@ EXCEPT !.pc = "done", !.resp = Deleted]]
    /\ hist' = [version |-> hist.version + 1, rebinds |-> hist.rebinds + 1, rebinder |-> t]

NextThreads ==
    \E t \in Threads :
        \/ CreateBegin(t)
        \/ CreateAppend(t)
        \/ DeleteBegin(t)
        \/ DeleteFilter(t)
        \/ DeleteRebind(t)

SpecThreads == Init /\ [][NextThreads]_vars

---------------------------------------------------------------------------
(* The gateway's requests.  The gateway holds no state of its own: each     *)
(* request is recorded with what the two backends gave at that moment.     *)

KeepBackends ==
    UNCHANGED <<service, users, products, request, response, before, freed,
                freedBefore, thread, hist>>

Index ==
    \E u \in UserAnswers, p \in ProductAnswers :
        /\ gateway' = Served("/", u, p, index(u, p))
        /\ KeepBackends

Users ==
    \E u \in UserAnswers :
        /\ gateway' = Served("/users", u, NoCall, gateway_users(u))
        /\ KeepBackends

Products ==
    \E p \in ProductAnswers :
        /\ gateway' = Served("/products", NoCall, p, gateway_products(p))
        /\ KeepBackends

Health ==
    \E u \in HealthAnswers, p \in HealthAnswers, now \in UtcNow :
        /\ gateway' = Served("/api/health", u, p, gateway_health(u, p, now))
        /\ KeepBackends

Metrics ==
    /\ gateway' = Served("/api/metrics", NoCall, NoCall, gateway_metrics)
    /\ KeepBackends

NextGateway ==
    \/ Index
    \/ Users
    \/ Products
    \/ Health
    \/ Metrics

SpecGateway == Init /\ [][NextGateway]_vars

---------------------------------------------------------------------------
(* Vocabulary of the properties *)

IsCreate == request.op \in {"create_user", "create_product"}
IsUpdate == request.op \in {"update_user", "update_product"}
IsDelete == request.op \in {"delete_user", "delete_product"}

IdsOf(store) == {store[i].id.n : i \in 1..Len(store)}

Largest(ns) == CHOOSE m \in ns : \A n \in ns : n <= m

RequiredFields ==
    IF service = "user-service" THEN {"name", "email", "role"}
    ELSE {"name", "description", "price", "category"}

AllowList ==
    IF service = "user-service" THEN {"name", "email", "role"}
    ELSE {"name", "description", "price", "category", "stock"}

\* The response to GET /api/<resource>/{id} in the current state.
GetById(id) ==
    IF service = "user-service" THEN get_user(users, id).resp
    ELSE get_product(products, id).resp

\* The request body carries every required field.
HasAllRequired == request.data.present /\ \A k \in RequiredFields : HasKey(request.data, k)

\* The price of the request body, when it has one, is one float() accepts.
PriceConvertible == HasKey(request.data, "price") => float(Get(request.data, "price")).ok

---------------------------------------------------------------------------
(* C1: every create request that carries all required fields (read with   *)
(* the spec's "valid required fields": a price, when there is one, that    *)
(* float() accepts) is answered 201 with a record whose id is              *)
(* max(ids before the request, 0) + 1, so 1 on an empty list, and a GET by *)
(* that id right afterwards answers 200 with the same record.              *)
C1_CreateAssignsNextId ==
    (IsCreate /\ HasAllRequired /\ PriceConvertible) =>
        /\ response.status = 201
        /\ response.kind = "record"
        /\ response.items[1].id = I(Largest(IdsOf(before) \cup {0}) + 1)
        /\ GetById(response.items[1].id.n) = JsonRecord(200, response.items[1])

(* C2: with requests handled one at a time, no two records of a list carry *)
(* the same id.                                                            *)
C2_UniqueIds ==
    \A i, j \in 1..Len(Store) : i # j => Store[i].id # Store[j].id

\* A create has just reused the id of a deleted record.
C2_Witness ==
    /\ IsCreate /\ response.status = 201
    /\ freedBefore # <<>>
    /\ Len(Store) >= 3

(* C3: a successful update changes only allow-listed fields present in the *)
(* body: other fields of the target keep their value, keys outside the     *)
(* allow-list are ignored, every other record is unchanged; and no update  *)
(* (successful or not) changes the id or created_at of its target.         *)
C3_UpdateFrame ==
    LET i == Find(before, request.id)
    IN  /\ (IsUpdate /\ response.status = 200) =>
              /\ Len(Store) = Len(before)
              /\ \A j \in 1..Len(before) : j # i => Store[j] = before[j]
              /\ \A key \in DOMAIN before[i] :
                    (key \notin AllowList \/ ~HasKey(request.data, key))
                        => Store[i][key] = before[i][key]
        /\ (IsUpdate /\ i # 0) =>
              /\ Len(Store) = Len(before)
              /\ Store[i].id = before[i].id
              /\ Store[i].created_at = before[i].created_at

\* A successful update whose body carried a key outside the allow-list.
C3_Witness ==
    /\ IsUpdate /\ response.status = 200
    /\ HasKey(request.data, "id")
    /\ Store # before

(* C4: a delete of an existing id answers 200 with the deletion message;   *)
(* the list is one record shorter, holds no record with that id, keeps     *)
(* every other record as it was, and a GET by that id answers 404.  From   *)
(* the seed users a create returns id 5.                                   *)
C4_DeleteRemoves ==
    /\ (IsDelete /\ request.id \in IdsOf(before)) =>
          /\ response = Deleted
          /\ Len(Store) = Len(before) - 1
          /\ request.id \notin IdsOf(Store)
          /\ Store = SelectSeq(before, LAMBDA r : r.id.n # request.id)
          /\ GetById(request.id) = NotFound
    /\ (request.op = "create_user" /\ before = SeedUsers /\ HasAllRequired) =>
          /\ response.status = 201
          /\ response.items[1].id = I(5)

\* DELETE /api/users/5 after a POST on the seed users.
C4_Witness ==
    /\ request.op = "delete_user" /\ request.id = 5
    /\ Len(before) = 5
    /\ SubSeq(before, 1, 4) = SeedUsers
    /\ response.status = 200

(* C5: every request ends in a handled response with status 200, 201, 400  *)
(* or 404.                                                                 *)
C5_EveryRequestHandled ==
    request.op # "none" => response.status \in {200, 201, 400, 404}

C7_UpdateDeleteErrors ==
    /\ (IsUpdate /\ request.id \notin IdsOf(before)) =>
          response = NotFound /\ Store = before
    /\ (IsUpdate /\ request.id \in IdsOf(before) /\ Falsy(request.data)) =>
          response = JsonError(400, "No data provided") /\ Store = before
    /\ (IsDelete /\ request.id \notin IdsOf(before)) =>
          response = NotFound /\ Store = before

\* An update of an absent id whose body is empty: the id check decides.
C7_Witness ==
    /\ IsUpdate
    /\ request.id \notin IdsOf(before)
    /\ Falsy(request.data)
    /\ response.status = 404

(* C8: update is idempotent: sending the PUT just handled once more leaves *)
(* the list as it is and gives the same response.                          *)
C8_UpdateIdempotent ==
    (IsUpdate /\ request.id \in IdsOf(before)) =>
        IF service = "user-service"
        THEN update_user(users, request.id, request.data) = Result(users, response)
        ELSE update_product(products, request.id, request.data) = Result(products, response)

\* An update that changed its target has been applied.
C8_Witness ==
    /\ IsUpdate /\ response.status = 200
    /\ Store # before
    /\ HasKey(request.data, "name") \/ HasKey(request.data, "price")

(* C9: the length of a list changes only by a successful create (+1) or a  *)
(* successful delete (-1); every other request leaves it unchanged.        *)
C9_LengthFrame ==
    request.op # "none" =>
        Len(Store) = Len(before)
                     + (IF IsCreate /\ response.status = 201 THEN 1 ELSE 0)
                     - (IF IsDelete /\ response.status = 200 THEN 1 ELSE 0)

\* A category filter that selected some but not all of the products.
C9_Witness ==
    /\ request.op = "get_products_by_category"
    /\ response.status = 200
    /\ Len(response.items) > 0
    /\ Len(response.items) < Len(Store)

(* C10 as stated: after the record with the highest id is deleted, the     *)
(* next successful create returns the id of the deleted record (taken for  *)
(* the delete nearest to the create).                                      *)
C10_ReissuesDeletedId ==
    (IsCreate /\ response.status = 201 /\ freedBefore # <<>>) =>
        response.items[1].id = I(freedBefore[Len(freedBefore)])

(* C10 amended: after the record with the highest id is deleted, the next  *)
(* successful create returns max(remaining ids) + 1, which never exceeds   *)
(* the deleted id and equals it exactly when the record with the id just   *)
(* below is still in the list; so create can hand out an id again.         *)
C10_ReissuesUpToDeletedId ==
    (IsCreate /\ response.status = 201) =>
        \A k \in 1..Len(freedBefore) :
            LET d == freedBefore[k]
            IN  /\ response.items[1].id.n = Largest(IdsOf(before)) + 1
                /\ response.items[1].id.n <= d
                /\ (response.items[1].id.n = d) <=> (d - 1 \in IdsOf(before))

\* A create has handed out the id of the record deleted before it, for a
\* record that differs from the seed record of that id.
C10_Witness ==
    /\ request.op = "create_user" /\ response.status = 201
    /\ freedBefore = <<4>>
    /\ response.items[1].id = I(4)
    /\ response.items[1] # SeedUsers[4]
    /\ SeedUsers[4].id = I(4)

\* Strings that are equal when letter case is ignored.
CaseClasses ==
    {{"Electronics", "ELECTRONICS", "electronics"}, {"Accessories", "accessories"},
     {"Toys", "toys"}}

SameIgnoringCase(a, b) == a = b \/ \E c \in CaseClasses : a \in c /\ b \in c

(* C12: the category filter always answers 200 with exactly the products   *)
(* whose category equals the requested one ignoring letter case, in list   *)
(* order; an unmatched category gives an empty array.                      *)
C12_CategoryFilter ==
    request.op = "get_products_by_category" =>
        response = JsonList(SelectSeq(products,
                       LAMBDA p : /\ p.category.t = "str"
                                  /\ SameIgnoringCase(p.category.s, request.category)))

(* C14: a successful create puts the new record at the end of the list, a  *)
(* successful delete removes the matching record and keeps the others in   *)
(* their order, and an update leaves every record at its position.         *)
C14_ListOrder ==
    /\ (IsCreate /\ response.status = 201) =>
          Store = Append(before, response.items[1])
    /\ (IsDelete /\ response.status = 200) =>
          Store = SelectSeq(before, LAMBDA r : r.id # I(request.id))
    /\ IsUpdate =>
          /\ Len(Store) = Len(before)
          /\ \A i \in 1..Len(before) : Store[i].id = before[i].id

\* A create on a list that earlier deletes had shortened.
C14_Witness ==
    /\ IsCreate /\ response.status = 201
    /\ Len(before) >= 2
    /\ Len(before) < Len(SeedUsers)
    /\ Store[Len(Store)] = response.items[1]

(* C15: GET /api/metrics always answers 200 with the record count, 10      *)
(* (users) or 15 (products) times the count, the uptime 3600 and, for      *)
(* products, the sum of price * stock; GET /api/health always answers 200  *)
(* with status "healthy".                                                  *)
C15_MetricsAndHealth ==
    /\ (request.op = "metrics" /\ service = "user-service") =>
          response = Resp(200, "metrics", "", <<>>,
                          <<I(10 * Len(users)), I(Len(users)), I(3600)>>)
    /\ (request.op = "metrics" /\ service = "product-service") =>
          /\ response.status = 200
          /\ response.nums = <<I(15 * Len(products)), I(Len(products)), I(3600),
                               F(TotalValue(products).val)>>
    /\ request.op = "health" =>
          response.status = 200 /\ response.text = "healthy"

(* C17: an update that is not answered 200 leaves its target (the whole    *)
(* list) exactly as it was before the request.                             *)
C17_UpdateAllOrNothing ==
    (IsUpdate /\ response.status # 200) => Store = before

\* Thread t has handled a create that was answered 201.
Created(t) ==
    thread[t].op = "create" /\ thread[t].pc = "done" /\ thread[t].resp.status = 201

(* C11: two creates that both computed max(ids) + 1 before either appended *)
(* (both read the same state of the list) are given the same id and, as    *)
(* long as no delete rebinds the list after their appends, both records    *)
(* are in the list: two records share an id.                               *)
C11_RacingCreatesShareId ==
    \A a, b \in Threads :
        (a # b /\ Created(a) /\ Created(b) /\ thread[a].seen = thread[b].seen) =>
            /\ thread[a].new[1].id = thread[b].new[1].id
            /\ (hist.rebinds = thread[a].rebinds /\ hist.rebinds = thread[b].rebinds) =>
                  \E i, j \in 1..Len(Store) :
                      /\ i # j
                      /\ Store[i] = thread[a].new[1]
                      /\ Store[j] = thread[b].new[1]

\* Two creates have been answered 201 and the list holds two records with
\* one id.
C11_Witness ==
    /\ \E a, b \in Threads : a # b /\ Created(a) /\ Created(b)
    /\ \E i, j \in 1..Len(Store) : i # j /\ Store[i].id = Store[j].id

(* C16: when a create appends its record while a delete holds its filtered *)
(* copy and has not yet rebound the list, then once that delete has        *)
(* rebound it the create has answered 201 but its record is not in the     *)
(* list, and (no other request being in flight) a GET by the returned id   *)
(* answers 404.                                                            *)
C16_LostCreate ==
    \A a, d \in Threads :
        (Created(a) /\ d \in thread[a].stale /\ hist.rebinder = d) =>
            /\ thread[a].resp = JsonRecord(201, thread[a].new[1])
            /\ \A i \in 1..Len(Store) : Store[i] # thread[a].new[1]
            /\ GetById(thread[a].new[1].id.n) # JsonRecord(200, thread[a].new[1])
            /\ (\A t \in Threads \ {a, d} : thread[t].pc = "idle") =>
                  GetById(thread[a].new[1].id.n) = NotFound

\* A create answered 201 whose record the rebinding delete has dropped.
C16_Witness ==
    \E a, d \in Threads :
        /\ Created(a) /\ d \in thread[a].stale /\ hist.rebinder = d
        /\ thread[d].pc = "done" /\ thread[d].resp = Deleted
        /\ \A t \in Threads \ {a, d} : thread[t].pc = "idle"
        /\ GetById(thread[a].new[1].id.n) = NotFound

\* The upstream GET failed: it raised (timeout, connection error) or was
\* answered with a status other than 200.  It succeeded: 200 with a JSON body.
Failed(r) == r.kind = "raise" \/ (r.kind = "response" /\ r.status # 200)

Succeeded(r) == r.kind = "response" /\ r.status = 200 /\ r.json

TemplateOf(route) ==
    CASE route = "/" -> "index.html"
      [] route = "/users" -> "users.html"
      [] route = "/products" -> "products.html"
      [] OTHER -> ""

(* C13: on the pages /, /users and /products every failure of an upstream  *)
(* GET (timeout, connection error, non-200 status) still renders the page  *)
(* of the route, answered 200, with an empty list for the data of the      *)
(* failed service; no failure becomes an error response of the gateway.    *)
C13_UpstreamFailureDegrades ==
    gateway.route \in {"/", "/users", "/products"} =>
        /\ gateway.resp.status = 200
        /\ gateway.resp.template = TemplateOf(gateway.route)
        /\ Failed(gateway.user) => gateway.resp.users = <<>>
        /\ Failed(gateway.product) => gateway.resp.products = <<>>

\* The dashboard was asked while the user service timed out and the product
\* service answered 503: the page is rendered with both lists empty.
C13_Witness ==
    /\ gateway.route = "/"
    /\ gateway.user = Raise("Timeout")
    /\ gateway.product = Answer(503, FALSE, <<>>)
    /\ gateway.resp.status = 200
    /\ gateway.resp.template = "index.html"
    /\ gateway.resp.users = <<>>
    /\ gateway.resp.products = <<>>

(* C18: on the dashboard page (/) the data shown for one backend depends   *)
(* only on the outcome of the call to that backend: when the user service  *)
(* gives 200 with its list and the product service fails, the page shows   *)
(* the fetched users and no products, and when the product service gives   *)
(* 200 with its list and the user service fails, the page shows the        *)
(* fetched products and no users.                                          *)
C18_IndexPerBackend ==
    gateway.route = "/" =>
        /\ (Succeeded(gateway.user) /\ Failed(gateway.product)) =>
              /\ gateway.resp.users = gateway.user.body
              /\ gateway.resp.products = <<>>
        /\ (Failed(gateway.user) /\ Succeeded(gateway.product)) =>
              /\ gateway.resp.products = gateway.product.body
              /\ gateway.resp.users = <<>>

=============================================================================
